---------------------------- MODULE Spec2Model ----------------------------
(***************************************************************************)
(* MTO-NWP-Data: the forecast artifact resolution layer and the download   *)
(* loops of the four provider components (gfs.py, ecmwf.py, icon.py,       *)
(* arpage.py) and of BaseDownloader.download (base.py).                    *)
(*                                                                         *)
(* Strings are TLC strings (\o concatenates), so URLs and file names are   *)
(* built character for character as the f-strings of the source build     *)
(* them.  A datetime is a record [day, hour, minute, second, microsecond], *)
(* day counted from 2024-12-01 (day 0).  An Optional[...] argument is <<>> *)
(* for None and <<v>> for the value v.                                     *)
(***************************************************************************)
EXTENDS Integers, Sequences, FiniteSets, TLC

VARIABLES
    pc,          \* position of the running entry point: idle, loop, done, raised
    provider,    \* which entry point the invocation runs
    args,        \* the arguments of the invocation
    now,         \* the wall clock (dt.datetime.now)
    dir_made,    \* output_dir.mkdir has run in this invocation
    resolved_run, \* the run (run_dt) the invocation works on, once resolved
    work,        \* the leaves the loops of this invocation iterate, in order
    idx,         \* index into work of the next leaf
    log,         \* what this invocation did with each leaf processed so far
    store,       \* the output directory: file name -> content
    prev,        \* how the previous invocation ended
    error,       \* the exception that reached the caller, "" if none
    inp,         \* input of a pure function under test
    out          \* its result

vars == <<pc, provider, args, now, dir_made, resolved_run, work, idx, log, store, prev, error, inp, out>>

loopVars == <<pc, provider, args, dir_made, resolved_run, work, idx, log, store, prev, error>>

---------------------------------------------------------------------------
(* Python values *)

None == <<>>

Some(v) == <<v>>

IsNone(o) == Len(o) = 0

Val(o) == o[1]

\* list(range(start, stop, step)) for step > 0
Range(start, stop, step) ==
    IF stop <= start THEN <<>>
    ELSE [i \in 1..((stop - start + step - 1) \div step) |-> start + (i - 1) * step]

\* [h for h in xs if h <= m]
FilterLeq(xs, m) == SelectSeq(xs, LAMBDA h : h <= m)

Digit(d) == SubSeq("0123456789", d + 1, d + 1)

\* str(n) / f"{n}" for n >= 0
RECURSIVE Dec(_)
Dec(n) == IF n < 10 THEN Digit(n) ELSE Dec(n \div 10) \o Digit(n % 10)

\* f"{n:0wd}" for n >= 0
RECURSIVE ZeroPad(_, _)
ZeroPad(s, w) == IF Len(s) >= w THEN s ELSE ZeroPad("0" \o s, w)

Fmt02d(n) == ZeroPad(Dec(n), 2)

Fmt03d(n) == ZeroPad(Dec(n), 3)

---------------------------------------------------------------------------
(* datetime *)

DateTime(d, h, mi, s, us) ==
    [day |-> d, hour |-> h, minute |-> mi, second |-> s, microsecond |-> us]

\* the calendar date of a day number: day 0 is 2024-12-01
YMD(d) ==
    IF d < 31 THEN <<2024, 12, d + 1>>
    ELSE IF d < 62 THEN <<2025, 1, d - 30>>
    ELSE <<2025, 2, d - 61>>

\* strftime("%Y%m%d")
StrfYmd(t) == Dec(YMD(t.day)[1]) \o Fmt02d(YMD(t.day)[2]) \o Fmt02d(YMD(t.day)[3])

\* strftime("%H")
StrfH(t) == Fmt02d(t.hour)

\* strftime("%Y%m%d%H")
StrfYmdH(t) == StrfYmd(t) \o StrfH(t)

\* t - dt.timedelta(hours=n): the date rolls back when the hour goes below 0
MinusHours(t, n) ==
    LET total == t.day * 24 + t.hour - n
    IN  [t EXCEPT !.day = total \div 24, !.hour = total % 24]

\* t.replace(hour=h, minute=0, second=0, microsecond=0)
ReplaceHour(t, h) == [t EXCEPT !.hour = h, !.minute = 0, !.second = 0, !.microsecond = 0]

\* whole seconds since day 0 00:00:00
Seconds(t) == ((t.day * 24 + t.hour) * 60 + t.minute) * 60 + t.second

\* a <= b on datetimes
DtLeq(a, b) ==
    \/ Seconds(a) < Seconds(b)
    \/ Seconds(a) = Seconds(b) /\ a.microsecond <= b.microsecond

\* (a - b).total_seconds() > secs
AgeExceeds(a, b, secs) ==
    LET ds == Seconds(a) - Seconds(b)
    IN  \/ ds > secs
        \/ ds = secs /\ a.microsecond > b.microsecond

---------------------------------------------------------------------------
(* gfs.py: Run-Time Resolver *)

GFS_DOMAINS ==
    <<"gfs013", "gfs025", "gfs025_ens", "gfs05_ens",
      "gfswave025", "gfswave016", "gfswave025_ens",
      "nam_conus", "hrrr_conus", "hrrr_conus_15min">>

SeqSet(s) == {s[i] : i \in 1..Len(s)}

GfsFamily6hBuffer4 ==
    {"gfs05_ens", "gfs025_ens", "gfswave025_ens",
     "gfs013", "gfs025", "gfswave025", "gfswave016"}

\* a floor that replaces the hour only
floor_to_6h_hour_only(dt_utc) == [dt_utc EXCEPT !.hour = (dt_utc.hour \div 6) * 6]

floor_to_6h(dt_utc) == ReplaceHour(dt_utc, (dt_utc.hour \div 6) * 6)

\* the outcome of a call: not made yet, returned a value, or raised an exception
Pending == [st |-> "pending", exc |-> "", value |-> <<>>]

Ret(v) == [st |-> "returned", exc |-> "", value |-> v]

Raise(e) == [st |-> "raised", exc |-> e, value |-> <<>>]

last_run(domain, t_now) ==
    IF domain \in GfsFamily6hBuffer4 THEN Ret(floor_to_6h(MinusHours(t_now, 4)))
    ELSE IF domain = "nam_conus" THEN Ret(floor_to_6h(MinusHours(t_now, 2)))
    ELSE IF domain \in {"hrrr_conus", "hrrr_conus_15min"}
         THEN Ret([t_now EXCEPT !.minute = 0, !.second = 0, !.microsecond = 0])
    ELSE Raise("ValueError")

(* icon.py: Run-Time Resolver *)

get_latest_run(t_now) ==
    LET safe_time == MinusHours(t_now, 4)
        hour == (safe_time.hour \div 6) * 6
    IN  ReplaceHour(safe_time, hour)

(* arpage.py: Run-Time Resolver *)

ARPEGE_DOMAINS == {"arpege_europe", "arpege_world"}

update_interval_hours(domain) == 6

guess_last_run(domain, t_now) ==
    LET interval == update_interval_hours(domain)
        t == MinusHours(t_now, 2)
        floored_hour == (t.hour \div interval) * interval
    IN  ReplaceHour(t, floored_hour)

---------------------------------------------------------------------------
(* gfs.py: Step/Member Enumerator *)

forecast_hours_seam_dup(domain, run_hour, second_flush) ==
    IF domain = "gfs05_ens" THEN
        IF second_flush THEN Ret(Range(390, 841, 6))
        ELSE Ret(Range(0, 241, 3) \o Range(240, 385, 6))
    ELSE IF domain \in {"gfs025_ens", "gfswave025_ens"} THEN Ret(Range(0, 241, 3))
    ELSE IF domain \in {"gfs013", "gfs025", "gfswave025", "gfswave016"}
         THEN Ret(Range(0, 121, 1) \o Range(120, 385, 3))
    ELSE IF domain = "nam_conus" THEN Ret(Range(0, 61, 1))
    ELSE IF domain = "hrrr_conus" THEN
        IF run_hour % 6 = 0 THEN Ret(Range(0, 49, 1)) ELSE Ret(Range(0, 19, 1))
    ELSE IF domain = "hrrr_conus_15min" THEN Ret(Range(0, 18 * 4 + 1, 1))
    ELSE Raise("ValueError")

forecast_hours(domain, run_hour, second_flush) ==
    IF domain = "gfs05_ens" THEN
        IF second_flush THEN Ret(Range(390, 841, 6))
        ELSE Ret(Range(0, 240, 3) \o Range(240, 385, 6))
    ELSE IF domain \in {"gfs025_ens", "gfswave025_ens"} THEN Ret(Range(0, 241, 3))
    ELSE IF domain \in {"gfs013", "gfs025", "gfswave025", "gfswave016"}
         THEN Ret(Range(0, 120, 1) \o Range(120, 385, 3))
    ELSE IF domain = "nam_conus" THEN Ret(Range(0, 61, 1))
    ELSE IF domain = "hrrr_conus" THEN
        IF run_hour % 6 = 0 THEN Ret(Range(0, 49, 1)) ELSE Ret(Range(0, 19, 1))
    ELSE IF domain = "hrrr_conus_15min" THEN Ret(Range(0, 18 * 4 + 1, 1))
    ELSE Raise("ValueError")

\* the last lead time each branch of forecast_hours can return (its range stop - 1)
gfs_max_horizon(domain, run_hour, second_flush) ==
    IF domain = "gfs05_ens" THEN (IF second_flush THEN 840 ELSE 384)
    ELSE IF domain \in {"gfs025_ens", "gfswave025_ens"} THEN 240
    ELSE IF domain \in {"gfs013", "gfs025", "gfswave025", "gfswave016"} THEN 384
    ELSE IF domain = "nam_conus" THEN 60
    ELSE IF domain = "hrrr_conus" THEN (IF run_hour % 6 = 0 THEN 48 ELSE 18)
    ELSE 72

ENSEMBLE_MEMBER_COUNT(domain) == 31

IsEnsemble(domain) == domain \in {"gfs05_ens", "gfs025_ens", "gfswave025_ens"}

(* ecmwf.py: EcmwfDomain *)

ECMWF_NAMES ==
    {"aifs025_single", "aifs025_ensemble", "ifs025", "ifs025_ensemble",
     "wam025", "wam025_ensemble"}

\* CONFIG[name] = (system_dir, resolution, default_stream, description)
ECMWF_CONFIG(name) ==
    CASE name = "aifs025_single"   -> <<"aifs-single", "0p25", "oper">>
      [] name = "aifs025_ensemble" -> <<"aifs-ens", "0p25", "enfo">>
      [] name = "ifs025"           -> <<"ifs", "0p25", "oper">>
      [] name = "ifs025_ensemble"  -> <<"ifs", "0p25", "enfo">>
      [] name = "wam025"           -> <<"ifs", "0p25", "wave">>
      [] name = "wam025_ensemble"  -> <<"ifs", "0p25", "waef">>

\* EcmwfDomain.__init__: the aliases, then the lookup
EcmwfDomain(name) ==
    LET n1 == IF name = "aifs025" THEN "aifs025_single" ELSE name
        n2 == IF n1 = "ifs" THEN "ifs025" ELSE n1
    IN  IF n2 \notin ECMWF_NAMES THEN Raise("ValueError")
        ELSE Ret([name |-> n2, system |-> ECMWF_CONFIG(n2)[1],
                  resolution |-> ECMWF_CONFIG(n2)[2],
                  base_stream |-> ECMWF_CONFIG(n2)[3]])

\* sub in s
Contains(s, sub) ==
    \E i \in 1..(Len(s) - Len(sub) + 1) : SubSeq(s, i, i + Len(sub) - 1) = sub

get_download_forecast_steps(dom, run_hour) ==
    IF Contains(dom.name, "aifs") THEN Range(0, 361, 6)
    ELSE LET step_size == 3
         IN  IF run_hour \in {0, 12} THEN Range(0, 240 + step_size, step_size)
             ELSE IF run_hour \in {6, 18} THEN Range(0, 90 + step_size, step_size)
             ELSE <<>>

\* the horizon the comments of get_download_forecast_steps give each branch
ecmwf_max_horizon(dom, run_hour) ==
    IF Contains(dom.name, "aifs") THEN 360
    ELSE IF run_hour \in {0, 12} THEN 240
    ELSE 90

---------------------------------------------------------------------------
(* gfs.py: URL/Filename Builder *)

gfsAws == "https://noaa-gfs-bdp-pds.s3.amazonaws.com/"

gfsNomads == "https://nomads.ncep.noaa.gov/pub/data/nccf/com/gfs/prod/"

gefsAws == "https://noaa-gefs-pds.s3.amazonaws.com/"

gefsNomads == "https://nomads.ncep.noaa.gov/pub/data/nccf/com/gens/prod/"

hrrrNomads == "https://nomads.ncep.noaa.gov/pub/data/nccf/com/hrrr/prod/"

hrrrAws == "https://noaa-hrrr-bdp-pds.s3.amazonaws.com/"

\* an archive test that also fires at an age of exactly 36 hours
\* a host choice that looks at the age alone
use_archive_age_only(run_dt, use_aws, t_now) == AgeExceeds(t_now, run_dt, 36 * 3600)

use_archive_at_36h(run_dt, use_aws, t_now) ==
    use_aws \/ Seconds(t_now) - Seconds(run_dt) >= 36 * 3600

\* use_archive = use_aws or (age_sec > 36 * 3600), against the clock of the call
use_archive(run_dt, use_aws, t_now) ==
    use_aws \/ AgeExceeds(t_now, run_dt, 36 * 3600)

member_str(member) == IF member = 0 THEN "gec00" ELSE "gep" \o Fmt02d(member)

build_gfs_urls(domain, run_dt, forecast_hour, member, use_aws, t_now) ==
    LET yyyymmdd == StrfYmd(run_dt)
        hh == StrfH(run_dt)
        fHHH == Fmt03d(forecast_hour)
        archive == use_archive(run_dt, use_aws, t_now)
        gfs_server == IF archive THEN gfsAws ELSE gfsNomads
        gefs_server == IF archive THEN gefsAws ELSE gefsNomads
        hrrr_server == IF archive THEN hrrrAws ELSE hrrrNomads
    IN  IF domain = "gfs05_ens" THEN
            <<gefs_server \o "gefs." \o yyyymmdd \o "/" \o hh \o "/atmos/pgrb2ap5/"
              \o member_str(member) \o ".t" \o hh \o "z.pgrb2a.0p50.f" \o fHHH>>
        ELSE IF domain = "gfs025_ens" THEN
            <<gefs_server \o "gefs." \o yyyymmdd \o "/" \o hh \o "/atmos/pgrb2b25/"
              \o member_str(member) \o ".t" \o hh \o "z.pgrb2b.0p25.f" \o fHHH>>
        ELSE IF domain = "gfswave025_ens" THEN
            <<gefs_server \o "gefs." \o yyyymmdd \o "/" \o hh \o "/wave/gridded/"
              \o member_str(member) \o ".t" \o hh \o "z.global.0p25.f" \o fHHH \o ".grib2">>
        ELSE IF domain = "gfs025" THEN
            <<gfs_server \o "gfs." \o yyyymmdd \o "/" \o hh \o "/atmos/gfs.t" \o hh
              \o "z.pgrb2.0p25.f" \o fHHH>>
        ELSE IF domain = "gfs013" THEN
            <<gfs_server \o "gfs." \o yyyymmdd \o "/" \o hh \o "/atmos/gfs.t" \o hh
              \o "z.pgrb2.0p13.f" \o fHHH>>
        ELSE IF domain = "gfswave025" THEN
            <<gfs_server \o "gfs." \o yyyymmdd \o "/" \o hh \o "/wave/gridded/gfswave.t" \o hh
              \o "z.global.0p25.f" \o fHHH \o ".grib2">>
        ELSE IF domain = "gfswave016" THEN
            <<gfs_server \o "gfs." \o yyyymmdd \o "/" \o hh \o "/wave/gridded/gfswave.t" \o hh
              \o "z.global.0p16.f" \o fHHH \o ".grib2">>
        ELSE IF domain = "hrrr_conus" THEN
            <<hrrr_server \o "hrrr." \o yyyymmdd \o "/conus/hrrr.t" \o hh
              \o "z.wrfsfcf" \o fHHH \o ".grib2">>
        ELSE <<>>

\* download_gfs: fname = f"{domain}_{yyyymmddhh}_m{member:02d}_f{fhour:03d}.grib2"
gfs_fname(domain, run_dt, member, fhour) ==
    domain \o "_" \o StrfYmdH(run_dt) \o "_m" \o Fmt02d(member) \o "_f" \o Fmt03d(fhour)
    \o ".grib2"

(* ecmwf.py: URL/Filename Builder *)

ECMWF_BASE_URL == "https://data.ecmwf.int/forecasts/"

\* the stream of a run: 'scda' / 'scwv' for ifs025 / wam025 at 06 and 18
\* a rename that looks at the stream and the hour but not at the domain
ecmwf_stream_any_domain(dom, run_time) ==
    IF run_time.hour \in {6, 18} THEN
        LET s1 == IF dom.base_stream = "oper" THEN "scda" ELSE dom.base_stream
        IN  IF s1 = "wave" THEN "scwv" ELSE s1
    ELSE dom.base_stream

ecmwf_stream(dom, run_time) ==
    IF dom.name \in {"ifs025", "wam025"} /\ run_time.hour \in {6, 18} THEN
        LET s1 == IF dom.base_stream = "oper" THEN "scda" ELSE dom.base_stream
        IN  IF s1 = "wave" THEN "scwv" ELSE s1
    ELSE dom.base_stream

get_urls(dom, base_url, run_time, step) ==
    LET yyyymmdd == StrfYmd(run_time)
        hh == Fmt02d(run_time.hour)
        stream == ecmwf_stream(dom, run_time)
        ftype == "fc"
        url_base == base_url \o yyyymmdd \o "/" \o hh \o "z"
        directory == dom.system \o "/" \o dom.resolution \o "/" \o stream
        file_date_str == yyyymmdd \o hh \o "0000"
        filename == file_date_str \o "-" \o Dec(step) \o "h-" \o stream \o "-" \o ftype
                    \o ".grib2"
    IN  <<url_base \o "/" \o directory \o "/" \o filename>>

\* download_ecmwf: fname = f"{dom.name}_{run:%Y%m%d}_{run.hour:02d}z_{hour}h.grib2"
ecmwf_fname(dom, run, hour) ==
    dom.name \o "_" \o StrfYmd(run) \o "_" \o Fmt02d(run.hour) \o "z_" \o Dec(hour)
    \o "h.grib2"

(* icon.py: URL/Filename Builder *)

DWD_BASE_URL == "https://opendata.dwd.de/weather/nwp/icon-eu/grib"

LowerChars == "abcdefghijklmnopqrstuvwxyz"

UpperChars == "ABCDEFGHIJKLMNOPQRSTUVWXYZ"

\* one character mapped from the alphabet `from` to the alphabet `to`
MapChar(c, from, to) ==
    IF \E i \in 1..26 : SubSeq(from, i, i) = c
    THEN LET i == CHOOSE j \in 1..26 : SubSeq(from, j, j) = c IN SubSeq(to, i, i)
    ELSE c

RECURSIVE MapStr(_, _, _)
MapStr(s, from, to) ==
    IF Len(s) = 0 THEN ""
    ELSE MapChar(SubSeq(s, 1, 1), from, to) \o MapStr(SubSeq(s, 2, Len(s)), from, to)

\* str.lower()
Lower(s) == MapStr(s, UpperChars, LowerChars)

\* str.upper()
Upper(s) == MapStr(s, LowerChars, UpperChars)

\* the remote file name of build_dwd_url
dwd_filename(run, var, step, level_type, level) ==
    LET date_run == StrfYmd(run) \o Fmt02d(run.hour)
        var_file == Upper(var)
        step_str == Fmt03d(step)
        prefix == "icon-eu_europe_regular-lat-lon"
    IN  IF ~IsNone(level) THEN
            prefix \o "_" \o level_type \o "_" \o date_run \o "_" \o step_str \o "_"
            \o Dec(Val(level)) \o "_" \o var_file \o ".grib2.bz2"
        ELSE
            prefix \o "_" \o level_type \o "_" \o date_run \o "_" \o step_str \o "_"
            \o var_file \o ".grib2.bz2"

build_dwd_url(run, var, step, level_type, level) ==
    DWD_BASE_URL \o "/" \o Fmt02d(run.hour) \o "/" \o Lower(var) \o "/"
    \o dwd_filename(run, var, step, level_type, level)

\* Python truth value of an Optional[int]: None and 0 are false
Truthy(level) == ~IsNone(level) /\ Val(level) # 0

\* download_icon: the local name, with the level appended `if level:`
icon_fname(run, var, step, level) ==
    IF Truthy(level) THEN
        "icon-eu_" \o StrfYmdH(run) \o "_" \o Fmt03d(step) \o "_" \o var \o "_"
        \o Dec(Val(level)) \o ".grib2"
    ELSE
        "icon-eu_" \o StrfYmdH(run) \o "_" \o Fmt03d(step) \o "_" \o var \o ".grib2"

(* arpage.py: URL/Filename Builder *)

ARPEGE_PACKAGES == <<"SP1", "SP2", "HP1", "IP1">>

package_times(domain) ==
    IF domain = "arpege_europe" THEN
        <<"000H012H", "013H024H", "025H036H", "037H048H",
          "049H060H", "061H072H", "073H084H", "085H096H", "097H102H">>
    ELSE <<"000H024H", "025H048H", "049H072H", "073H102H">>

grid_res(domain) == IF domain = "arpege_europe" THEN "01" ELSE "025"

\* strftime("%Y-%m-%dT%H:%M")
StrfIsoShort(t) ==
    Dec(YMD(t.day)[1]) \o "-" \o Fmt02d(YMD(t.day)[2]) \o "-" \o Fmt02d(YMD(t.day)[3])
    \o "T" \o Fmt02d(t.hour) \o ":" \o Fmt02d(t.minute)

build_gov_url(domain, run, package, package_time) ==
    LET family == "arpege"
        res == grid_res(domain)
        run_iso_short == StrfIsoShort(run)
        base == "https://object.data.gouv.fr/meteofrance-pnt/pnt"
    IN  base \o "/" \o run_iso_short \o ":00Z/" \o family \o "/" \o res \o "/" \o package
        \o "/" \o family \o "__" \o res \o "__" \o package \o "__" \o package_time \o "__"
        \o run_iso_short \o ":00Z.grib2"

\* download_arpege: fname = f"{domain}_{run:%Y%m%d%H}_{pkg}_{p_time}.grib2"
arpege_fname(domain, run, pkg, p_time) ==
    domain \o "_" \o StrfYmdH(run) \o "_" \o pkg \o "_" \o p_time \o ".grib2"

---------------------------------------------------------------------------
(* What every specification starts from: no invocation running, empty     *)
(* output directory, no pure call made.                                   *)

NoRun == DateTime(0, 0, 0, 0, 0)

\* the arguments of the five entry points, in one record
NoArgs ==
    [domain |-> "", run |-> None, max_forecast_hour |-> None, use_aws |-> FALSE,
     second_flush |-> FALSE, max_members |-> None, variables |-> <<>>, steps |-> <<>>,
     level_type |-> "single-level", level |-> None, url |-> "", filename |-> ""]

NoPrev == [st |-> "none", all_ok |-> FALSE, run |-> NoRun]

IdleLoop ==
    /\ pc = "idle"
    /\ provider = ""
    /\ args = NoArgs
    /\ dir_made = FALSE
    /\ resolved_run = NoRun
    /\ work = <<>>
    /\ idx = 1
    /\ log = <<>>
    /\ store = <<>>
    /\ prev = NoPrev
    /\ error = ""

NoInput == [fn |-> "", domain |-> "", run_hour |-> 0, second_flush |-> FALSE]

\* the instants the clock is sampled at: around 2025-01-01, every hour of the
\* day, on and off the minute, second and microsecond boundaries
ClockSamples ==
    {DateTime(d, h, mi, s, us) :
        d \in {31, 32}, h \in 0..23, mi \in {0, 59}, s \in {0, 59}, us \in {0, 999999}}

---------------------------------------------------------------------------
(* SpecResolve: the three run-time resolvers applied to a sampled clock *)

InitResolve ==
    /\ IdleLoop
    /\ now \in ClockSamples
    /\ inp = NoInput
    /\ out = Pending

call_last_run(domain) ==
    /\ out = Pending
    /\ inp' = [NoInput EXCEPT !.fn = "last_run", !.domain = domain]
    /\ out' = last_run(domain, now)
    /\ UNCHANGED <<now, loopVars>>

call_get_latest_run ==
    /\ out = Pending
    /\ inp' = [NoInput EXCEPT !.fn = "get_latest_run", !.domain = "icon-eu"]
    /\ out' = Ret(get_latest_run(now))
    /\ UNCHANGED <<now, loopVars>>

call_guess_last_run(domain) ==
    /\ out = Pending
    /\ inp' = [NoInput EXCEPT !.fn = "guess_last_run", !.domain = domain]
    /\ out' = Ret(guess_last_run(domain, now))
    /\ UNCHANGED <<now, loopVars>>

NextResolve ==
    \/ \E domain \in SeqSet(GFS_DOMAINS) \cup {"fake_gfs"} : call_last_run(domain)
    \/ call_get_latest_run
    \/ \E domain \in ARPEGE_DOMAINS : call_guess_last_run(domain)

SpecResolve == InitResolve /\ [][NextResolve]_vars

\* the cadence the resolver of a domain floors to
Cadence(domain) == IF domain \in {"hrrr_conus", "hrrr_conus_15min"} THEN 1 ELSE 6

\* C6: every resolved latest run has minute, second and microsecond 0, an hour
\* of the day that is a multiple of the domain's cadence (6 h, 1 h for HRRR),
\* and is not later than now, also when the latency buffer crosses midnight.
C6_ResolvedRunAligned ==
    out.st = "returned" =>
        /\ out.value.minute = 0
        /\ out.value.second = 0
        /\ out.value.microsecond = 0
        /\ out.value.hour \in 0..23
        /\ out.value.hour % Cadence(inp.domain) = 0
        /\ DtLeq(out.value, now)

\* C6 witness: a GFS run resolved shortly after midnight, off the minute: the
\* buffer moves it to 18Z of the previous day
C6_Witness ==
    /\ out.st = "returned"
    /\ inp.fn = "last_run"
    /\ inp.domain = "gfs025"
    /\ now.hour = 2
    /\ now.minute = 59
    /\ out.value.day = now.day - 1
    /\ out.value.hour = 18

---------------------------------------------------------------------------
(* SpecSteps: the two step enumerators applied to every run hour *)

StepInputs ==
    [fn : {"forecast_hours"}, domain : SeqSet(GFS_DOMAINS) \cup {"fake_gfs"},
     run_hour : 0..23, second_flush : BOOLEAN]
    \cup
    [fn : {"get_download_forecast_steps"}, domain : ECMWF_NAMES \cup {"aifs025", "ifs"},
     run_hour : 0..23, second_flush : {FALSE}]

InitSteps ==
    /\ IdleLoop
    /\ now = DateTime(31, 0, 0, 0, 0)
    /\ inp \in StepInputs
    /\ out = Pending

call_forecast_hours ==
    /\ out = Pending
    /\ inp.fn = "forecast_hours"
    /\ out' = forecast_hours(inp.domain, inp.run_hour, inp.second_flush)
    /\ UNCHANGED <<inp, now, loopVars>>

call_get_download_forecast_steps ==
    /\ out = Pending
    /\ inp.fn = "get_download_forecast_steps"
    /\ out' = Ret(get_download_forecast_steps(EcmwfDomain(inp.domain).value, inp.run_hour))
    /\ UNCHANGED <<inp, now, loopVars>>

NextSteps ==
    \/ call_forecast_hours
    \/ call_get_download_forecast_steps

SpecSteps == InitSteps /\ [][NextSteps]_vars

StrictlyIncreasing(xs) == \A i \in 1..(Len(xs) - 1) : xs[i] < xs[i + 1]

MaxHorizon(i) ==
    IF i.fn = "forecast_hours" THEN gfs_max_horizon(i.domain, i.run_hour, i.second_flush)
    ELSE ecmwf_max_horizon(EcmwfDomain(i.domain).value, i.run_hour)

\* C7: every step list the enumerators return is strictly increasing (so free
\* of duplicates, also at the seam of a dense and a sparse segment) and no
\* step exceeds the domain's maximum horizon for the run hour.
C7_StepsIncreasingWithinHorizon ==
    out.st = "returned" =>
        /\ StrictlyIncreasing(out.value)
        /\ \A i \in 1..Len(out.value) : out.value[i] >= 0 /\ out.value[i] <= MaxHorizon(inp)

\* C7 witness: the GEFS 0.5 list across its seam at 240 h, ending at 384 h
C7_Witness ==
    /\ out.st = "returned"
    /\ inp.domain = "gfs05_ens"
    /\ ~inp.second_flush
    /\ \E i \in 1..(Len(out.value) - 2) :
           out.value[i] = 237 /\ out.value[i + 1] = 240 /\ out.value[i + 2] = 246
    /\ out.value[Len(out.value)] = 384

\* the run hours a domain publishes: every hour for HRRR, the synoptic hours
\* 00, 06, 12, 18 for every other domain
PublishedRunHour(domain, run_hour) == run_hour % Cadence(domain) = 0

\* C13: asked for a run hour the domain never publishes, the enumerator fails
\* with an error that reaches the caller instead of returning a step list.
C13_InvalidRunHourRaises ==
    (out # Pending /\ ~PublishedRunHour(inp.domain, inp.run_hour)) => out.st = "raised"

---------------------------------------------------------------------------
(* SpecBuild: the URL/filename builders of one domain called twice, the    *)
(* clock advancing in between.  inp is the latest build, out the one       *)
(* before it.                                                              *)

BuildRuns == {DateTime(31, 0, 0, 0, 0), DateTime(31, 6, 0, 0, 0)}

\* the clock exactly 36 hours after the 00Z run (30 hours after the 06Z run),
\* and one microsecond later
BuildClock == <<DateTime(32, 12, 0, 0, 0), DateTime(32, 12, 0, 0, 1)>>

NoKey ==
    [provider |-> "", domain |-> "", run |-> NoRun, step |-> 0,
     member |-> 0, variable |-> "", level |-> None, use_aws |-> FALSE,
     package |-> "", package_time |-> ""]

NoBuild == [made |-> FALSE, key |-> NoKey, at |-> NoRun,
            urls |-> <<>>, fnames |-> <<>>]

GfsKeys ==
    {[NoKey EXCEPT !.provider = "gfs", !.domain = d, !.run = r, !.step = h,
                   !.member = m, !.use_aws = a] :
        d \in SeqSet(GFS_DOMAINS), r \in BuildRuns, h \in {0, 3}, m \in {0, 1},
        a \in BOOLEAN}

\* the four synoptic run hours
EcmwfRuns == {DateTime(31, h, 0, 0, 0) : h \in {0, 6, 12, 18}}

EcmwfKeys ==
    {[NoKey EXCEPT !.provider = "ecmwf", !.domain = d, !.run = r, !.step = h] :
        d \in ECMWF_NAMES, r \in EcmwfRuns, h \in {0, 3}}

IconKeys ==
    {[NoKey EXCEPT !.provider = "icon", !.domain = "icon-eu", !.run = r, !.step = h,
                   !.variable = v, !.level = l] :
        r \in BuildRuns, h \in {0, 3}, v \in {"t", "t_2m"},
        l \in {None, Some(0), Some(850)}}

ArpegeKeys ==
    UNION {{[NoKey EXCEPT !.provider = "arpege", !.domain = d, !.run = r,
                          !.package = pk, !.package_time = pt] :
              r \in BuildRuns, pk \in {ARPEGE_PACKAGES[1], ARPEGE_PACKAGES[4]},
              pt \in SeqSet(package_times(d))} : d \in ARPEGE_DOMAINS}

\* the level type a caller passes with a level: single-level iff none is given
LevelTypeOf(level) == IF IsNone(level) THEN "single-level" ELSE "pressure-level"

InitBuild ==
    /\ IdleLoop
    /\ now = BuildClock[1]
    /\ inp = NoBuild
    /\ out = NoBuild

\* one builder session stays within one provider and domain
SameDomain(k) ==
    ~inp.made \/ (inp.key.provider = k.provider /\ inp.key.domain = k.domain)

Record(k, urls, fnames) ==
    /\ inp' = [made |-> TRUE, key |-> k, at |-> now, urls |-> urls, fnames |-> fnames]
    /\ out' = inp
    /\ UNCHANGED <<now, loopVars>>

\* download_gfs lines 193-198: the URLs of a leaf and the local name of each
build_gfs(k) ==
    /\ SameDomain(k)
    /\ Record(k, build_gfs_urls(k.domain, k.run, k.step, k.member, k.use_aws, now),
              [i \in 1..Len(build_gfs_urls(k.domain, k.run, k.step, k.member, k.use_aws, now))
                 |-> gfs_fname(k.domain, k.run, k.member, k.step)])

\* download_ecmwf lines 143-147
build_ecmwf(k) ==
    /\ SameDomain(k)
    /\ Record(k, get_urls(EcmwfDomain(k.domain).value, ECMWF_BASE_URL, k.run, k.step),
              <<ecmwf_fname(EcmwfDomain(k.domain).value, k.run, k.step)>>)

\* download_icon lines 108-118
build_icon(k) ==
    /\ SameDomain(k)
    /\ Record(k, <<build_dwd_url(k.run, k.variable, k.step, LevelTypeOf(k.level), k.level)>>,
              <<icon_fname(k.run, k.variable, k.step, k.level)>>)

\* download_arpege lines 102-105
build_arpege(k) ==
    /\ SameDomain(k)
    /\ Record(k, <<build_gov_url(k.domain, k.run, k.package, k.package_time)>>,
              <<arpege_fname(k.domain, k.run, k.package, k.package_time)>>)

\* time passes between two calls
TickBuild ==
    /\ \E i \in 1..Len(BuildClock) : DtLeq(now, BuildClock[i]) /\ now # BuildClock[i]
                                     /\ now' = BuildClock[i]
    /\ UNCHANGED <<inp, out, loopVars>>

NextBuild ==
    \/ \E k \in GfsKeys : build_gfs(k)
    \/ \E k \in EcmwfKeys : build_ecmwf(k)
    \/ \E k \in IconKeys : build_icon(k)
    \/ \E k \in ArpegeKeys : build_arpege(k)
    \/ TickBuild

SpecBuild == InitBuild /\ [][NextBuild]_vars

\* the (run, step, member, variable, level) tuple of a build; a package and
\* its time block are the variable and step of the regional spectral model
ArtifactTuple(k) == <<k.run, k.step, k.member, k.variable, k.level, k.package, k.package_time>>

\* C5: within one domain, two distinct (run, step, member, variable, level)
\* tuples never get the same local file name.
C5_FilenameInjective ==
    (inp.made /\ out.made /\ ArtifactTuple(inp.key) # ArtifactTuple(out.key)) =>
        \A i \in 1..Len(inp.fnames) : \A j \in 1..Len(out.fnames) :
            inp.fnames[i] # out.fnames[j]

\* the part of a GFS-family URL after its host prefix
UrlPath(url) ==
    LET marker == IF Contains(url, ".amazonaws.com/") THEN ".amazonaws.com/" ELSE "/prod/"
        i == CHOOSE j \in 1..Len(url) : SubSeq(url, j, j + Len(marker) - 1) = marker
    IN  SubSeq(url, i + Len(marker), Len(url))

OnArchiveHost(url) == Contains(url, ".s3.amazonaws.com/") /\ ~Contains(url, "nomads")

OnLiveHost(url) ==
    SubSeq(url, 1, 46) = "https://nomads.ncep.noaa.gov/pub/data/nccf/com"
    /\ ~Contains(url, "amazonaws")

HostChosenRight(b) ==
    \A i \in 1..Len(b.urls) :
        IF b.key.use_aws \/ AgeExceeds(b.at, b.key.run, 36 * 3600)
        THEN OnArchiveHost(b.urls[i])
        ELSE OnLiveHost(b.urls[i])

\* C9: build_gfs_urls puts an artifact on the archive (AWS) host iff use_aws
\* was passed or the run is more than 36 hours older than the clock at the
\* moment of the build, on the live NOMADS host otherwise; two builds of the
\* same artifact differ in the host prefix only.
C9_HostSelection ==
    /\ (inp.made /\ inp.key.provider = "gfs") => HostChosenRight(inp)
    /\ (out.made /\ out.key.provider = "gfs") => HostChosenRight(out)
    /\ (inp.made /\ out.made /\ inp.key.provider = "gfs"
        /\ ArtifactTuple(inp.key) = ArtifactTuple(out.key)) =>
            /\ Len(inp.urls) = Len(out.urls)
            /\ \A i \in 1..Len(inp.urls) : UrlPath(inp.urls[i]) = UrlPath(out.urls[i])

\* C9 witness: the same gfs025 artifact built without use_aws at exactly 36 h
\* of age (live host) and again one microsecond later (archive host)
C9_Witness ==
    /\ inp.made /\ out.made
    /\ inp.key = out.key
    /\ inp.key.domain = "gfs025"
    /\ ~inp.key.use_aws
    /\ Seconds(out.at) - Seconds(out.key.run) = 36 * 3600
    /\ out.at.microsecond = 0
    /\ inp.at.microsecond = 1
    /\ Seconds(inp.at) = Seconds(out.at)
    /\ OnLiveHost(out.urls[1])
    /\ OnArchiveHost(inp.urls[1])

\* suf is the end of s
EndsWith(s, suf) == Len(s) >= Len(suf) /\ SubSeq(s, Len(s) - Len(suf) + 1, Len(s)) = suf

\* the tokens that end an ICON name: run, step, then level and variable
IconTail(k, var, ext) ==
    "_" \o StrfYmdH(k.run) \o "_" \o Fmt03d(k.step) \o "_"
    \o (IF IsNone(k.level) THEN "" ELSE Dec(Val(k.level)) \o "_") \o var \o ext

\* the remote name of an ICON build follows the placement rule
IconUrlPlaced(b) == EndsWith(b.urls[1], IconTail(b.key, Upper(b.key.variable), ".grib2.bz2"))

\* the local name of an ICON build follows the placement rule
IconLocalPlaced(b) == EndsWith(b.fnames[1], IconTail(b.key, b.key.variable, ".grib2"))

\* C12: for a leveled ICON request the remote file name and the local file
\* name carry the level token immediately before the variable token; for a
\* single-level request they carry the variable token and no level token.
C12_LevelPlacement ==
    /\ (inp.made /\ inp.key.provider = "icon") => (IconUrlPlaced(inp) /\ IconLocalPlaced(inp))
    /\ (out.made /\ out.key.provider = "icon") => (IconUrlPlaced(out) /\ IconLocalPlaced(out))

\* the host build_gfs_urls is to choose at the time of a build
Archived(b) == b.key.use_aws \/ AgeExceeds(b.at, b.key.run, 36 * 3600)

SameArguments == inp.made /\ out.made /\ inp.key = out.key

\* C16 as stated: two builds with identical arguments yield the identical
\* URL and file name, whenever they are made.
C16_BuilderDeterministic ==
    SameArguments => (inp.urls = out.urls /\ inp.fnames = out.fnames)

\* C16 amended: two builds with identical arguments yield the identical file
\* name, and the identical URL unless the builder is build_gfs_urls and the
\* two calls fall on different sides of the 36-hour age of the run (use_aws
\* not passed).
C16_DeterministicGivenAge ==
    SameArguments =>
        /\ inp.fnames = out.fnames
        /\ (inp.key.provider # "gfs" \/ Archived(inp) = Archived(out)) => inp.urls = out.urls

\* C16 witness: the same gfs025 artifact built with use_aws on both sides of
\* the 36-hour age, with the same URL
C16_Witness ==
    /\ SameArguments
    /\ inp.key.domain = "gfs025"
    /\ inp.key.use_aws
    /\ inp.at # out.at
    /\ Len(inp.urls) = 1
    /\ inp.urls = out.urls

\* the stream token of a domain at a run hour
ExpectedStream(name, hour) ==
    IF hour \in {6, 18} /\ name = "ifs025" THEN "scda"
    ELSE IF hour \in {6, 18} /\ name = "wam025" THEN "scwv"
    ELSE ECMWF_CONFIG(name)[3]

StreamInUrl(b) ==
    LET stream == ExpectedStream(b.key.domain, b.key.run.hour)
    IN  EndsWith(b.urls[1],
                 "/" \o stream \o "/" \o StrfYmdH(b.key.run) \o "0000-" \o Dec(b.key.step)
                 \o "h-" \o stream \o "-fc.grib2")

\* C17: get_urls uses scda for ifs025 and scwv for wam025 at run hours 06 and
\* 18 and the configured stream of the domain otherwise, the same token in
\* the directory and in the file name of the URL.
C17_StreamByRunHour ==
    /\ (inp.made /\ inp.key.provider = "ecmwf") => StreamInUrl(inp)
    /\ (out.made /\ out.key.provider = "ecmwf") => StreamInUrl(out)

\* C17 witness: wam025 built for 18Z (scwv) after 12Z (wave)
C17_Witness ==
    /\ inp.made /\ out.made
    /\ inp.key.domain = "wam025" /\ out.key.domain = "wam025"
    /\ inp.key.run.hour = 18 /\ out.key.run.hour = 12
    /\ Contains(inp.urls[1], "/scwv/") /\ Contains(inp.urls[1], "h-scwv-fc")
    /\ Contains(out.urls[1], "/wave/") /\ Contains(out.urls[1], "h-wave-fc")

---------------------------------------------------------------------------
(* The download loops: download_gfs, download_ecmwf, download_icon,        *)
(* download_arpege and BaseDownloader.download.  An invocation resolves    *)
(* its run and enumerates the leaves of its nested loops (work), then      *)
(* handles one leaf per step.  The output directory outlives invocations.  *)

MaxArtifacts == 4

MaxHourCap == 1

MaxMemberCap == 2

NoLeaf == [member |-> 0, step |-> 0, variable |-> "", package |-> "", package_time |-> ""]

\* [mk(a, b) for a in outer for b in inner]
Product(outer, inner, mk(_, _)) ==
    [i \in 1..(Len(outer) * Len(inner)) |->
        mk(outer[((i - 1) \div Len(inner)) + 1], inner[((i - 1) % Len(inner)) + 1])]

Min(a, b) == IF a <= b THEN a ELSE b

\* what an entry point does before its loop: raise, return early, or make the
\* output directory, resolve the run and enumerate the leaves
Plan(exc, early, mkdir, run, leaves) ==
    [exc |-> exc, early |-> early, mkdir |-> mkdir, run |-> run, work |-> leaves]

\* download_gfs: members = list(range(n_members)) or [0]
gfs_members(domain, max_members) ==
    IF IsEnsemble(domain) THEN
        Range(0, IF IsNone(max_members) THEN ENSEMBLE_MEMBER_COUNT(domain)
                 ELSE Min(ENSEMBLE_MEMBER_COUNT(domain), Val(max_members)), 1)
    ELSE <<0>>

GfsLeaf(member, fhour) == [NoLeaf EXCEPT !.member = member, !.step = fhour]

StepMemberLeaf(fhour, member) == GfsLeaf(member, fhour)

\* the loops nested the other way round: steps outside, members inside
plan_gfs_steps_outer(a, t_now) ==
    IF a.domain \notin SeqSet(GFS_DOMAINS) THEN Plan("ValueError", FALSE, FALSE, NoRun, <<>>)
    ELSE LET run == IF IsNone(a.run) THEN last_run(a.domain, t_now).value ELSE Val(a.run)
             all == forecast_hours(a.domain, run.hour, a.second_flush).value
             fhours == IF IsNone(a.max_forecast_hour) THEN all
                       ELSE FilterLeq(all, Val(a.max_forecast_hour))
         IN  Plan("", FALSE, TRUE, run,
                  Product(fhours, gfs_members(a.domain, a.max_members), StepMemberLeaf))

plan_gfs(a, t_now) ==
    IF a.domain \notin SeqSet(GFS_DOMAINS) THEN Plan("ValueError", FALSE, FALSE, NoRun, <<>>)
    ELSE LET run == IF IsNone(a.run) THEN last_run(a.domain, t_now).value ELSE Val(a.run)
             all == forecast_hours(a.domain, run.hour, a.second_flush).value
             fhours == IF IsNone(a.max_forecast_hour) THEN all
                       ELSE FilterLeq(all, Val(a.max_forecast_hour))
         IN  Plan("", FALSE, TRUE, run,
                  Product(gfs_members(a.domain, a.max_members), fhours, GfsLeaf))

EcmwfLeaf(hour) == [NoLeaf EXCEPT !.step = hour]

plan_ecmwf(a, t_now) ==
    IF EcmwfDomain(a.domain).st = "raised" THEN Plan("", TRUE, FALSE, NoRun, <<>>)
    ELSE LET dom == EcmwfDomain(a.domain).value
             all == get_download_forecast_steps(dom, Val(a.run).hour)
             hours == IF IsNone(a.max_forecast_hour) THEN all
                      ELSE FilterLeq(all, Val(a.max_forecast_hour))
         IN  Plan("", FALSE, TRUE, Val(a.run), [i \in 1..Len(hours) |-> EcmwfLeaf(hours[i])])

IconLeaf(var, step) == [NoLeaf EXCEPT !.variable = var, !.step = step]

plan_icon(a, t_now) ==
    Plan("", FALSE, TRUE, Val(a.run), Product(a.variables, a.steps, IconLeaf))

\* int(s) for a string of decimal digits
RECURSIVE ParseInt(_)
ParseInt(s) ==
    IF Len(s) = 0 THEN 0
    ELSE ParseInt(SubSeq(s, 1, Len(s) - 1)) * 10
         + (CHOOSE d \in 0..9 : Digit(d) = SubSeq(s, Len(s), Len(s)))

\* p_time.split("H")[0]
BeforeH(s) == SubSeq(s, 1, (CHOOSE i \in 1..Len(s) : SubSeq(s, i, i) = "H"
                                   /\ \A j \in 1..(i - 1) : SubSeq(s, j, j) # "H") - 1)

\* a filter that also drops the block starting at max_forecast_hour
arpege_blocks_strict(p_times, max_forecast_hour) ==
    SelectSeq(p_times, LAMBDA p_time :
        ~(~IsNone(max_forecast_hour)
          /\ ParseInt(BeforeH(p_time)) >= Val(max_forecast_hour)))

\* the blocks the loop does not `continue` past: start_hour <= max_forecast_hour
arpege_blocks(p_times, max_forecast_hour) ==
    SelectSeq(p_times, LAMBDA p_time :
        ~(~IsNone(max_forecast_hour)
          /\ ParseInt(BeforeH(p_time)) > Val(max_forecast_hour)))

ArpegeLeaf(p_time, pkg) == [NoLeaf EXCEPT !.package_time = p_time, !.package = pkg]

plan_arpege(a, t_now) ==
    IF a.domain \notin ARPEGE_DOMAINS THEN Plan("ValueError", FALSE, FALSE, NoRun, <<>>)
    ELSE Plan("", FALSE, TRUE,
              IF IsNone(a.run) THEN guess_last_run(a.domain, t_now) ELSE Val(a.run),
              Product(arpege_blocks(package_times(a.domain), a.max_forecast_hour),
                      ARPEGE_PACKAGES, ArpegeLeaf))

\* BaseDownloader.download handles the one (url, filename) it is given; the
\* directory was made by __init__
plan_base(a, t_now) == Plan("", FALSE, TRUE, NoRun, <<NoLeaf>>)

PlanOf(p, a, t_now) ==
    CASE p = "gfs" -> plan_gfs(a, t_now)
      [] p = "ecmwf" -> plan_ecmwf(a, t_now)
      [] p = "icon" -> plan_icon(a, t_now)
      [] p = "arpege" -> plan_arpege(a, t_now)
      [] p = "base" -> plan_base(a, t_now)

\* the URLs of a leaf, built when the loop reaches it
leaf_urls(p, a, run, leaf, t_now) ==
    CASE p = "gfs" -> build_gfs_urls(a.domain, run, leaf.step, leaf.member, a.use_aws, t_now)
      [] p = "ecmwf" -> get_urls(EcmwfDomain(a.domain).value, ECMWF_BASE_URL, run, leaf.step)
      [] p = "icon" -> <<build_dwd_url(run, leaf.variable, leaf.step, a.level_type, a.level)>>
      [] p = "arpege" -> <<build_gov_url(a.domain, run, leaf.package, leaf.package_time)>>
      [] p = "base" -> <<a.url>>

\* the local file name of a leaf
leaf_fname(p, a, run, leaf) ==
    CASE p = "gfs" -> gfs_fname(a.domain, run, leaf.member, leaf.step)
      [] p = "ecmwf" -> ecmwf_fname(EcmwfDomain(a.domain).value, run, leaf.step)
      [] p = "icon" -> icon_fname(run, leaf.variable, leaf.step, a.level)
      [] p = "arpege" -> arpege_fname(a.domain, run, leaf.package, leaf.package_time)
      [] p = "base" -> a.filename

---------------------------------------------------------------------------
(* One fetch.  What the transport, the decompressor and the file system    *)
(* can do to it:                                                           *)
(*   ok                the response streams to its end                     *)
(*   conn_error        session.get raises (no connection, timeout)         *)
(*   http_404          status 404                                          *)
(*   http_error        another non-2xx status                              *)
(*   open_error        open(out_path, "wb") raises (permission denied)     *)
(*   stream_error      iter_content raises after some chunks were written  *)
(*   write_error       f.write raises after some chunks (disk full)        *)
(*   decompress_error  BZ2Decompressor.decompress raises OSError (ICON)    *)
(*   decompress_eof    BZ2Decompressor.decompress raises EOFError (ICON)   *)

PlainOutcomes ==
    {"ok", "conn_error", "http_404", "http_error", "open_error", "stream_error",
     "write_error"}

IconOutcomes == PlainOutcomes \cup {"decompress_error", "decompress_eof"}

Outcomes(p) == IF p = "icon" THEN IconOutcomes ELSE PlainOutcomes

\* the failure is one of the local store: open() or f.write() raised
LocalStateError(outcome) == outcome \in {"open_error", "write_error"}

\* the file was opened for writing before the failure
OpenedBefore(outcome) ==
    outcome \in {"ok", "stream_error", "write_error", "decompress_error", "decompress_eof"}

\* what a fetch leaves behind: kind is ok or fail, left is the state of the
\* local file once the handler is through, raised an exception that leaves the loop
Effect(kind, left, raised) == [kind |-> kind, left |-> left, raised |-> raised]

\* a handler that logs the error and lets it go on to the caller
try_fetch_plain_reraise(outcome) ==
    IF outcome = "ok" THEN Effect("ok", "full", FALSE)
    ELSE Effect("fail", IF OpenedBefore(outcome) THEN "partial" ELSE "absent", TRUE)

\* gfs.py 205-212, ecmwf.py 154-163, arpage.py 112-119, base.py 29-37:
\* try: get, raise_for_status, open, write chunks; except Exception: print
try_fetch_plain(outcome) ==
    IF outcome = "ok" THEN Effect("ok", "full", FALSE)
    ELSE Effect("fail", IF OpenedBefore(outcome) THEN "partial" ELSE "absent", FALSE)

\* icon.py 126-150: a 404 continues; an OSError while decompressing or writing
\* a chunk is caught inside the file block, which breaks and closes the file;
\* every other exception reaches the outer handler, which unlinks the file
try_fetch_icon(outcome) ==
    IF outcome = "ok" THEN Effect("ok", "full", FALSE)
    ELSE IF outcome \in {"decompress_error", "write_error"}
         THEN Effect("fail", "partial", FALSE)
    ELSE Effect("fail", "absent", FALSE)

try_fetch(p, outcome) == IF p = "icon" THEN try_fetch_icon(outcome) ELSE try_fetch_plain(outcome)

(* the output directory *)

EmptyStore == [f \in {} |-> [status |-> "full", by |-> "old"]]

\* an existence test that never finds the file
path_exists_never(dir, fname) == FALSE

\* out_path.exists()
path_exists(dir, fname) == fname \in DOMAIN dir

\* a write that leaves nothing in the directory
WriteFile_lost(dir, fname, status) == dir

\* open(out_path, "wb") and the chunks written until the file is closed
WriteFile(dir, fname, status) ==
    [f \in DOMAIN dir \cup {fname} |->
        IF f = fname THEN [status |-> status, by |-> "cur"] ELSE dir[f]]

Unlink(dir, fname) == [f \in DOMAIN dir \ {fname} |-> dir[f]]

\* what the earlier invocations left, seen from a new one
Aged(dir) == [f \in DOMAIN dir |-> [dir[f] EXCEPT !.by = "old"]]

NoFile == [status |-> "absent", by |-> ""]

FileAt(dir, fname) == IF fname \in DOMAIN dir THEN dir[fname] ELSE NoFile

(* the log of an invocation: one entry per leaf handled *)

Entry(leaf, fname, url, kind, opened, local, seen) ==
    [leaf |-> leaf, fname |-> fname, url |-> url, kind |-> kind, opened |-> opened,
     local |-> local, seen |-> seen]

AllOk(l) == \A i \in 1..Len(l) : l[i].kind = "ok"

\* how the invocation that just ended went
Summary ==
    IF pc = "idle" THEN NoPrev
    ELSE [st |-> pc, all_ok |-> (pc = "done" /\ error = "" /\ AllOk(log)), run |-> resolved_run]

---------------------------------------------------------------------------
(* Spec: one entry point invoked again and again with the same arguments   *)
(* against the same output directory, the clock advancing.                 *)

R00 == DateTime(31, 0, 0, 0, 0)

\* 36 hours after R00, and four hours later: the latest run moves from 06Z to 12Z
SpecClock == <<DateTime(32, 12, 0, 0, 0), DateTime(32, 16, 0, 0, 0)>>

HourCaps == {Some(m) : m \in 0..MaxHourCap}

MemberCaps == {None} \cup {Some(k) : k \in 1..MaxMemberCap}

GfsArgsOf(d, flushes, caps) ==
    {[NoArgs EXCEPT !.domain = d, !.run = r, !.max_forecast_hour = m, !.use_aws = a,
                    !.second_flush = f, !.max_members = k] :
        r \in {None, Some(R00)}, m \in HourCaps, a \in BOOLEAN, f \in flushes, k \in caps}

\* second_flush is passed for the one domain that reads it, a member cap for
\* the ensembles (without one an ensemble has 31 members)
GfsArgs ==
    UNION {GfsArgsOf(d, IF d = "gfs05_ens" THEN BOOLEAN ELSE {FALSE},
                     IF IsEnsemble(d) THEN MemberCaps ELSE {None, Some(MaxMemberCap)}) :
           d \in SeqSet(GFS_DOMAINS) \cup {"fake_gfs"}}

EcmwfArgs ==
    {[NoArgs EXCEPT !.domain = d, !.run = Some(R00), !.max_forecast_hour = m] :
        d \in ECMWF_NAMES \cup {"aifs025", "ifs", "fake_ecmwf"}, m \in HourCaps}

IconArgsOf(variables, levels) ==
    {[NoArgs EXCEPT !.domain = "icon-eu", !.run = Some(R00), !.variables = variables,
                    !.steps = st, !.level_type = LevelTypeOf(l), !.level = l] :
        st \in {<<0>>, <<0, 3>>}, l \in levels}

\* t is asked for on a single level or on a pressure level, t_2m is a
\* single-level variable
IconArgs == IconArgsOf(<<"t">>, {None, Some(850)}) \cup IconArgsOf(<<"t", "t_2m">>, {None})

ArpegeArgs ==
    {[NoArgs EXCEPT !.domain = d, !.run = r, !.max_forecast_hour = m] :
        d \in ARPEGE_DOMAINS \cup {"fake_arpege"}, r \in {Some(R00)},
        m \in {Some(MaxHourCap)}}

BaseArgs ==
    {[NoArgs EXCEPT !.url = "https://example.org/data/a.grib2", !.filename = "a.grib2"]}

ArgsOf(p) ==
    CASE p = "gfs" -> GfsArgs
      [] p = "ecmwf" -> EcmwfArgs
      [] p = "icon" -> IconArgs
      [] p = "arpege" -> ArpegeArgs
      [] p = "base" -> BaseArgs

Providers == {"gfs", "ecmwf", "icon", "arpege", "base"}

Init ==
    /\ pc = "idle"
    /\ provider \in Providers
    /\ args \in ArgsOf(provider)
    /\ now = SpecClock[1]
    /\ dir_made = FALSE
    /\ resolved_run = NoRun
    /\ work = <<>>
    /\ idx = 1
    /\ log = <<>>
    /\ store = EmptyStore
    /\ prev = NoPrev
    /\ error = ""
    /\ inp = NoInput
    /\ out = Pending

\* an entry point is called: everything it does before its loop; each leaf
\* is kept with the local file name the loop computes for it
Start(p, cap) ==
    /\ provider = p
    /\ pc \in {"idle", "done", "raised"}
    /\ LET plan == PlanOf(p, args, now)
       IN  /\ Len(plan.work) <= cap
           /\ pc' = IF plan.exc # "" THEN "raised" ELSE IF plan.early THEN "done" ELSE "loop"
           /\ error' = plan.exc
           /\ dir_made' = plan.mkdir
           /\ resolved_run' = plan.run
           /\ work' = [i \in 1..Len(plan.work) |->
                          [leaf |-> plan.work[i],
                           fname |-> leaf_fname(p, args, plan.run, plan.work[i])]]
    /\ prev' = Summary
    /\ idx' = 1
    /\ log' = <<>>
    /\ store' = Aged(store)
    /\ UNCHANGED <<provider, args, now, inp, out>>

Begin(p) == Start(p, MaxArtifacts)

download_gfs == Begin("gfs")

download_ecmwf == Begin("ecmwf")

download_icon == Begin("icon")

download_arpege == Begin("arpege")

BaseDownloader_download == Begin("base")

CurLeaf == work[idx].leaf

CurFname == work[idx].fname

CurUrls == leaf_urls(provider, args, resolved_run, CurLeaf, now)

Advance(entry) ==
    /\ log' = Append(log, entry)
    /\ idx' = idx + 1
    /\ UNCHANGED <<provider, args, now, dir_made, resolved_run, work, prev, inp, out>>

\* build_gfs_urls returned no URL: the leaf has nothing to fetch
loop_no_url ==
    /\ pc = "loop" /\ idx <= Len(work)
    /\ CurUrls = <<>>
    /\ Advance(Entry(CurLeaf, "", "", "nourl", FALSE, FALSE, NoFile))
    /\ UNCHANGED <<pc, error, store>>

\* if out_path.exists(): print [SKIP]; continue
loop_skip ==
    /\ pc = "loop" /\ idx <= Len(work)
    /\ path_exists(store, CurFname)
    /\ CurUrls # <<>>
    /\ Advance(Entry(CurLeaf, CurFname, "", "skip", FALSE, FALSE, FileAt(store, CurFname)))
    /\ UNCHANGED <<pc, error, store>>

\* the request is issued and the fetch ends in one of the given ways
fetch(outcomes) ==
    /\ pc = "loop" /\ idx <= Len(work)
    /\ ~path_exists(store, CurFname)
    /\ LET urls == CurUrls
       IN  /\ urls # <<>>
           /\ \E outcome \in outcomes :
                LET eff == try_fetch(provider, outcome)
                IN  /\ store' = IF eff.left = "absent" THEN Unlink(store, CurFname)
                                ELSE WriteFile(store, CurFname, eff.left)
                    /\ pc' = IF eff.raised THEN "raised" ELSE pc
                    /\ error' = IF eff.raised THEN "Exception" ELSE error
                    /\ Advance(Entry(CurLeaf, CurFname, urls[1], eff.kind,
                                     OpenedBefore(outcome), LocalStateError(outcome),
                                     FileAt(store, CurFname)))

\* the request is issued and the fetch ends one way or another
loop_fetch == fetch(Outcomes(provider))

\* the loops are through: the entry point returns
loop_end ==
    /\ pc = "loop" /\ idx > Len(work)
    /\ pc' = "done"
    /\ UNCHANGED <<provider, args, now, dir_made, resolved_run, work, idx, log, store, prev,
                   error, inp, out>>

\* time passes
Tick ==
    /\ \E i \in 1..Len(SpecClock) : DtLeq(now, SpecClock[i]) /\ now # SpecClock[i]
                                    /\ now' = SpecClock[i]
    /\ UNCHANGED <<loopVars, inp, out>>

Next ==
    \/ download_gfs
    \/ download_ecmwf
    \/ download_icon
    \/ download_arpege
    \/ BaseDownloader_download
    \/ loop_no_url
    \/ loop_skip
    \/ loop_fetch
    \/ loop_end
    \/ Tick

Spec == Init /\ [][Next]_vars

\* a loop is straight-line code whose requests carry timeouts: once entered it
\* keeps taking steps
loop_step == loop_no_url \/ loop_skip \/ loop_fetch \/ loop_end

SpecLive == Spec /\ WF_vars(loop_step)

---------------------------------------------------------------------------
(* SpecPlan: the loops of download_gfs, download_ecmwf and download_arpege *)
(* over longer horizons, more members and runs off the cadence, against a  *)
(* transport that answers every request, into a directory that is empty    *)
(* or already holds some of the files.                                     *)

MaxPlanned == 100

\* 03Z, an hour no 6-hourly domain publishes, and half past midnight
R03 == DateTime(31, 3, 0, 0, 0)

R0030 == DateTime(31, 0, 30, 0, 0)

R06 == DateTime(31, 6, 0, 0, 0)

GfsPlanArgs ==
    UNION {{[NoArgs EXCEPT !.domain = d, !.run = r, !.max_forecast_hour = Some(m),
                           !.max_members = k] :
              r \in {None, Some(R00), Some(R03), Some(R0030)}, m \in {0, 3, 6},
              k \in IF IsEnsemble(d) THEN {None, Some(1), Some(3)} ELSE {None}} :
           d \in SeqSet(GFS_DOMAINS)}

EcmwfPlanArgs ==
    {[NoArgs EXCEPT !.domain = d, !.run = Some(r), !.max_forecast_hour = m] :
        d \in ECMWF_NAMES \cup {"ifs"}, r \in {R00, R06, R03, R0030},
        m \in {None, Some(0), Some(6)}}

ArpegePlanArgs ==
    {[NoArgs EXCEPT !.domain = d, !.run = r, !.max_forecast_hour = m] :
        d \in ARPEGE_DOMAINS, r \in {None, Some(R00), Some(R03)},
        m \in {None} \cup {Some(h) : h \in {0, 12, 13, 24, 25, 48, 49, 102}}}

PlanArgsOf(p) ==
    CASE p = "gfs" -> GfsPlanArgs
      [] p = "ecmwf" -> EcmwfPlanArgs
      [] p = "arpege" -> ArpegePlanArgs

\* the directories an invocation may find: empty, or holding the file of its
\* second leaf, or of its first and third
PlanStores(p, a) ==
    LET plan == PlanOf(p, a, SpecClock[1])
        name(i) == leaf_fname(p, a, plan.run, plan.work[i])
    IN  {[f \in {name(i) : i \in held} |-> [status |-> "full", by |-> "old"]] :
            held \in {h \in {{}, {2}, {1, 3}} : h \subseteq 1..Len(plan.work)}}

InitPlan ==
    /\ pc = "idle"
    /\ provider \in {"gfs", "ecmwf", "arpege"}
    /\ args \in PlanArgsOf(provider)
    /\ now = SpecClock[1]
    /\ store \in PlanStores(provider, args)
    /\ dir_made = FALSE
    /\ resolved_run = NoRun
    /\ work = <<>>
    /\ idx = 1
    /\ log = <<>>
    /\ prev = NoPrev
    /\ error = ""
    /\ inp = NoInput
    /\ out = Pending

full_download_gfs == Start("gfs", MaxPlanned)

full_download_ecmwf == Start("ecmwf", MaxPlanned)

full_download_arpege == Start("arpege", MaxPlanned)

\* the request is issued and the response streams to its end
loop_fetch_ok == fetch({"ok"})

NextPlan ==
    \/ full_download_gfs
    \/ full_download_ecmwf
    \/ full_download_arpege
    \/ loop_no_url
    \/ loop_skip
    \/ loop_fetch_ok
    \/ loop_end

SpecPlan == InitPlan /\ [][NextPlan]_vars

---------------------------------------------------------------------------
(* SpecRace: two invocations of one entry point with the same arguments    *)
(* run at the same time against one output directory.  Each goes through   *)
(* the statements of the loop body one at a time: the existence test, the   *)
(* request, open(out_path, "wb"), the chunks written until the file is      *)
(* closed.  pc and idx hold the position of each invocation, log the        *)
(* tests that found no file, the requests and the opens of both in the      *)
(* order they happened.                                                     *)

Procs == {1, 2}

RaceArgs(p) ==
    IF p = "gfs" THEN
        {[NoArgs EXCEPT !.domain = "gfs025", !.run = Some(R00), !.max_forecast_hour = m] :
            m \in {Some(0), Some(1)}}
    ELSE BaseArgs

InitRace ==
    /\ provider \in {"gfs", "base"}
    /\ args \in RaceArgs(provider)
    /\ pc = [p \in Procs |-> "idle"]
    /\ idx = [p \in Procs |-> 1]
    /\ now = SpecClock[1]
    /\ dir_made = FALSE
    /\ resolved_run = NoRun
    /\ work = <<>>
    /\ log = <<>>
    /\ store = EmptyStore
    /\ prev = NoPrev
    /\ error = ""
    /\ inp = NoInput
    /\ out = Pending

Event(p, i, kind, seen) == [proc |-> p, leaf |-> i, kind |-> kind, seen |-> seen]

\* the entry point is called: mkdir, the run, the leaves (the same for both)
race_begin(p) ==
    /\ pc[p] = "idle"
    /\ LET plan == PlanOf(provider, args, now)
       IN  /\ plan.exc = "" /\ ~plan.early
           /\ dir_made' = plan.mkdir
           /\ resolved_run' = plan.run
           /\ work' = [i \in 1..Len(plan.work) |->
                          [leaf |-> plan.work[i],
                           fname |-> leaf_fname(provider, args, plan.run, plan.work[i])]]
    /\ pc' = [pc EXCEPT ![p] = "check"]
    /\ UNCHANGED <<provider, args, now, idx, log, store, prev, error, inp, out>>

\* an existence test that is not made: the invocation goes on to the request
race_check_blind(p) ==
    /\ pc[p] = "check" /\ idx[p] <= Len(work)
    /\ pc' = [pc EXCEPT ![p] = "get"]
    /\ log' = Append(log, Event(p, idx[p], "check", FileAt(store, work[idx[p]].fname)))
    /\ UNCHANGED <<provider, args, now, dir_made, resolved_run, work, idx, store, prev,
                   error, inp, out>>

\* if out_path.exists(): [SKIP], continue; otherwise on to the request
race_check(p) ==
    /\ pc[p] = "check" /\ idx[p] <= Len(work)
    /\ IF path_exists(store, work[idx[p]].fname)
       THEN /\ log' = log
            /\ idx' = [idx EXCEPT ![p] = idx[p] + 1]
            /\ pc' = pc
       ELSE /\ log' = Append(log, Event(p, idx[p], "check", FileAt(store, work[idx[p]].fname)))
            /\ idx' = idx
            /\ pc' = [pc EXCEPT ![p] = "get"]
    /\ UNCHANGED <<provider, args, now, dir_made, resolved_run, work, store, prev, error,
                   inp, out>>

\* session.get and raise_for_status: the request is issued; a failure is
\* caught and the loop moves on
race_get(p, outcome) ==
    /\ pc[p] = "get"
    /\ log' = Append(log, Event(p, idx[p], "request", NoFile))
    /\ IF outcome = "ok"
       THEN pc' = [pc EXCEPT ![p] = "open"] /\ idx' = idx
       ELSE pc' = [pc EXCEPT ![p] = "check"] /\ idx' = [idx EXCEPT ![p] = idx[p] + 1]
    /\ UNCHANGED <<provider, args, now, dir_made, resolved_run, work, store, prev, error,
                   inp, out>>

\* open(out_path, "wb"): the file is created, or truncated if it is there
race_open(p) ==
    /\ pc[p] = "open"
    /\ log' = Append(log, Event(p, idx[p], "open", FileAt(store, work[idx[p]].fname)))
    /\ store' = WriteFile(store, work[idx[p]].fname, "partial")
    /\ pc' = [pc EXCEPT ![p] = "write"]
    /\ UNCHANGED <<provider, args, now, dir_made, resolved_run, work, idx, prev, error,
                   inp, out>>

\* the chunks are written and the file is closed, or the stream breaks
race_write(p, outcome) ==
    /\ pc[p] = "write"
    /\ store' = WriteFile(store, work[idx[p]].fname, try_fetch_plain(outcome).left)
    /\ idx' = [idx EXCEPT ![p] = idx[p] + 1]
    /\ pc' = [pc EXCEPT ![p] = "check"]
    /\ UNCHANGED <<provider, args, now, dir_made, resolved_run, work, log, prev, error, inp,
                   out>>

\* the loop is through
race_end(p) ==
    /\ pc[p] = "check" /\ idx[p] > Len(work)
    /\ pc' = [pc EXCEPT ![p] = "done"]
    /\ UNCHANGED <<provider, args, now, dir_made, resolved_run, work, idx, log, store, prev,
                   error, inp, out>>

NextRace ==
    \/ \E p \in Procs : race_begin(p)
    \/ \E p \in Procs : race_check(p)
    \/ \E p \in Procs : \E outcome \in {"ok", "conn_error"} : race_get(p, outcome)
    \/ \E p \in Procs : race_open(p)
    \/ \E p \in Procs : \E outcome \in {"ok", "stream_error"} : race_write(p, outcome)
    \/ \E p \in Procs : race_end(p)

SpecRace == InitRace /\ [][NextRace]_vars

\* the events of a kind for a leaf
Events(kind, i) == {n \in 1..Len(log) : log[n].kind = kind /\ log[n].leaf = i}

\* C18: the existence test and the write are separate steps: an invocation
\* requests an artifact only after its own test found the file absent and
\* requests it once, yet two invocations running at the same time can both
\* pass the test and both request and write the same artifact.
C18_CheckThenRequest ==
    \A n \in 1..Len(log) :
        log[n].kind = "request" =>
            /\ \E c \in Events("check", log[n].leaf) :
                   c < n /\ log[c].proc = log[n].proc /\ log[c].seen = NoFile
            /\ \A o \in Events("request", log[n].leaf) : o # n => log[o].proc # log[n].proc

\* C18 witness: both invocations found the file of the first artifact absent,
\* both requested it, and the second to open it found the file the other had
\* begun to write
C18_Witness ==
    /\ \E a \in Events("request", 1) : \E b \in Events("request", 1) :
           log[a].proc = 1 /\ log[b].proc = 2
    /\ \E o \in Events("open", 1) : log[o].seen # NoFile
    /\ \A p \in Procs : pc[p] = "done"

---------------------------------------------------------------------------
(* Claims about the download loops *)

Handled(kinds) == {i \in 1..Len(log) : log[i].kind \in kinds}

UnknownDomain ==
    CASE provider = "gfs" -> args.domain \notin SeqSet(GFS_DOMAINS)
      [] provider = "ecmwf" -> EcmwfDomain(args.domain).st = "raised"
      [] provider = "arpege" -> args.domain \notin ARPEGE_DOMAINS
      [] OTHER -> FALSE

\* C1: whenever a fetch fails after the local file was opened for writing, the
\* partial file is gone before the next artifact is processed, so no file
\* exists for an artifact whose fetch failed in this invocation.
C1_PartialFileCleanup ==
    \A i \in Handled({"fail"}) : log[i].opened => log[i].fname \notin DOMAIN store

\* C2: a failed fetch never reaches the caller and never stops the loop: no
\* exception leaves an invocation once its loop has begun, the log follows the
\* enumerated leaves one entry per leaf in order, a leaf is left without a
\* request or a skip only when its builder returned no URL, and a loop that
\* was entered returns.
C2_Isolated ==
    /\ pc = "raised" => log = <<>>
    /\ pc \in {"loop", "done"} =>
        /\ error = ""
        /\ Len(log) = idx - 1
        /\ Len(log) <= Len(work)
        /\ \A i \in 1..Len(log) :
            /\ log[i].leaf = work[i].leaf
            /\ log[i].kind \in {"skip", "ok", "fail", "nourl"}
            /\ log[i].kind = "nourl" <=>
                   leaf_urls(provider, args, resolved_run, work[i].leaf, now) = <<>>
    /\ pc = "done" => Len(log) = Len(work)

C2_FailureIsolation == []C2_Isolated /\ ((pc = "loop") ~> (pc = "done"))

\* C2 witness: a loop that returned after a failed fetch followed by a
\* successful one
C2_Witness ==
    /\ pc = "done"
    /\ \E i \in Handled({"fail"}) : \E j \in Handled({"ok"}) : i < j

\* C3: no request is issued for an artifact whose local file exists when it is
\* checked, and the invocation leaves that file as it found it.
C3_SkipIfExists ==
    \A i \in 1..Len(log) :
        log[i].seen # NoFile =>
            /\ log[i].kind = "skip"
            /\ log[i].url = ""
            /\ FileAt(store, log[i].fname) = log[i].seen

\* C3 witness: an invocation that skipped a file left by an earlier one and
\* fetched another artifact
C3_Witness ==
    /\ pc = "done"
    /\ \E i \in Handled({"skip"}) : log[i].seen = [status |-> "full", by |-> "old"]
    /\ Handled({"ok"}) # {}

\* the invocation before this one returned and each of its fetches succeeded
AfterPopulating == pc \in {"loop", "done"} /\ prev.all_ok

NoRequests == \A i \in 1..Len(log) : log[i].kind = "skip" /\ log[i].url = ""

\* C4 as stated: a second invocation with the same arguments, after a first
\* whose fetches all succeeded, issues no request and skips every artifact.
C4_Idempotent == AfterPopulating => NoRequests

\* C4 amended: the same, provided both invocations work on the same run (an
\* explicit run, or run=None resolving to the same latest run both times).
C4_IdempotentSameRun == (AfterPopulating /\ resolved_run = prev.run) => NoRequests

\* C4 witness: a second invocation that skipped every one of at least two
\* artifacts the first one fetched
C4_Witness ==
    /\ AfterPopulating /\ resolved_run = prev.run
    /\ pc = "done"
    /\ Len(log) >= 2
    /\ NoRequests

\* C8: an entry point called with an unregistered domain raises to the caller
\* before the output directory is made and before any request.
C8_UnknownDomainRaises ==
    (UnknownDomain /\ pc # "idle") =>
        /\ pc = "raised"
        /\ error = "ValueError"
        /\ ~dir_made
        /\ log = <<>>

\* the members and steps the loop of download_gfs is to cover
GfsExpected ==
    LET count == ENSEMBLE_MEMBER_COUNT(args.domain)
        members == IF IsEnsemble(args.domain)
                   THEN 0..((IF IsNone(args.max_members) THEN count
                             ELSE Min(Val(args.max_members), count)) - 1)
                   ELSE {0}
        steps == forecast_hours(args.domain, resolved_run.hour, args.second_flush).value
    IN  {GfsLeaf(m, h) : m \in members,
                         h \in {x \in SeqSet(steps) : x <= Val(args.max_forecast_hour)}}

\* C10: the artifacts download_gfs attempts (or skips as present) are exactly
\* the capped members times the enumerated steps within the horizon cap, member
\* 0 alone for a deterministic domain; gfs025 with M = 0 is the one artifact
\* gfs.YYYYMMDD/HH/atmos/gfs.tHHz.pgrb2.0p25.f000.
C10_AttemptedSet ==
    (provider = "gfs" /\ pc = "done") =>
        /\ {log[i].leaf : i \in Handled({"skip", "ok", "fail"})} = GfsExpected
        /\ (args.domain = "gfs025" /\ args.max_forecast_hour = Some(0)) =>
              /\ Len(log) = 1
              /\ log[1].url # "" =>
                    UrlPath(log[1].url) =
                        "gfs." \o StrfYmd(resolved_run) \o "/" \o StrfH(resolved_run)
                        \o "/atmos/gfs.t" \o StrfH(resolved_run) \o "z.pgrb2.0p25.f000"

\* C15: once a fetch fails because the local store is unusable (open or write
\* raised), the loop aborts: that artifact is the last one handled and no
\* further artifact is requested or written in the invocation.
C15_LocalErrorsFatal ==
    \A i \in Handled({"fail"}) :
        log[i].local => (i = Len(log) /\ ~(pc = "loop" /\ idx <= Len(work)))

\* C20: download_gfs gets exactly one URL for every leaf of a registered
\* domain, so an invocation with a non-empty step list into an empty output
\* directory issues at least one request.
C20_EveryDomainDownloadable ==
    provider = "gfs" =>
        /\ \A i \in 1..Len(log) : log[i].kind # "nourl"
        /\ (pc = "done" /\ prev.st = "none" /\ work # <<>>) => Handled({"ok", "fail"}) # {}

\* the entries of the log for which a request was issued, in order
Requests == SelectSeq(log, LAMBDA e : e.kind \in {"ok", "fail"})

\* the invocation found no file in the output directory
StartedEmpty == \A f \in DOMAIN store : store[f].by # "old"

\* the first hour of a block such as 025H048H
StartHour(p_time) == CHOOSE h \in 0..120 : Fmt03d(h) = SubSeq(p_time, 1, 3)

\* the configured blocks of the domain that start within the cap, each with
\* the four packages
ArpegeExpected ==
    LET blocks == SelectSeq(package_times(args.domain), LAMBDA p_time :
                      IsNone(args.max_forecast_hour)
                      \/ StartHour(p_time) <= Val(args.max_forecast_hour))
    IN  [i \in 1..(4 * Len(blocks)) |->
            <<blocks[((i - 1) \div 4) + 1], <<"SP1", "SP2", "HP1", "IP1">>[((i - 1) % 4) + 1]>>]

ArpegeAttempts == [i \in 1..Len(Requests) |->
                      <<Requests[i].leaf.package_time, Requests[i].leaf.package>>]

\* C11: into an empty directory download_arpege attempts exactly the
\* configured blocks whose start hour is <= M, whole, for each of SP1, SP2,
\* HP1, IP1, in the configured order, and nothing of a later block; with no
\* maximum it attempts every configured block.
C11_ArpegeBlocks ==
    (provider = "arpege" /\ StartedEmpty) =>
        /\ pc = "loop" => ArpegeAttempts = SubSeq(ArpegeExpected, 1, Len(ArpegeAttempts))
        /\ pc = "done" => ArpegeAttempts = ArpegeExpected

\* C11 witness: arpege_world with M = 25 ends having attempted the blocks
\* starting at 0 and at 25, eight artifacts, and none of the block at 49
C11_Witness ==
    /\ provider = "arpege" /\ StartedEmpty /\ pc = "done"
    /\ args.domain = "arpege_world"
    /\ args.max_forecast_hour = Some(25)
    /\ Len(Requests) = 8
    /\ Requests[4].leaf.package_time = "000H024H"
    /\ Requests[5].leaf.package_time = "025H048H"
    /\ Requests[8].leaf.package = "IP1"

\* the explicit run of the invocation is off the cadence of its domain
UnalignedRun ==
    /\ ~IsNone(args.run)
    /\ \/ Val(args.run).hour % Cadence(args.domain) # 0
       \/ Val(args.run).minute # 0
       \/ Val(args.run).second # 0

\* C14: an entry point given an explicit run that is not aligned to the
\* cadence of the domain rejects it with an error before any request.
C14_UnalignedRunRejected ==
    (UnalignedRun /\ pc # "idle") => (pc = "raised" /\ error # "" /\ log = <<>>)

LexLess(a, b) == a.member < b.member \/ (a.member = b.member /\ a.step < b.step)

\* the leaves with a URL whose file the invocation did not find, in the
\* order of the enumeration
ToRequest ==
    SelectSeq(work, LAMBDA w :
        /\ leaf_urls(provider, args, resolved_run, w.leaf, now) # <<>>
        /\ ~(w.fname \in DOMAIN store /\ store[w.fname].by = "old"))

\* C19: download_gfs issues its requests in ascending lexicographic (member,
\* step) order, and the sequence is the one given by the arguments, the run
\* and the files found: the leaves not yet in the directory, in that order.
C19_IterationOrder ==
    (provider = "gfs" /\ pc \in {"loop", "done"}) =>
        /\ \A i \in 1..(Len(Requests) - 1) : LexLess(Requests[i].leaf, Requests[i + 1].leaf)
        /\ pc = "done" =>
              /\ Len(Requests) = Len(ToRequest)
              /\ \A i \in 1..Len(Requests) : Requests[i].leaf = ToRequest[i].leaf

\* C19 witness: three members of gfs025_ens with steps 0 and 3, the file of
\* the second leaf already there: the requests are (0,0), (1,0), (1,3), (2,0),
\* (2,3)
C19_Witness ==
    /\ provider = "gfs" /\ pc = "done"
    /\ args.domain = "gfs025_ens"
    /\ args.max_members = Some(3)
    /\ log[2].kind = "skip"
    /\ Len(Requests) = 5
    /\ Requests[1].leaf = GfsLeaf(0, 0)
    /\ Requests[2].leaf = GfsLeaf(1, 0)
    /\ Requests[3].leaf = GfsLeaf(1, 3)
    /\ Requests[5].leaf = GfsLeaf(2, 3)

===========================================================================
